---- MODULE Spec2Model ----
(***************************************************************************)
(* fsclean: the duplicate-file engine (duplicates.py), the change ledger   *)
(* (common.py) and the command line driver (cli.py).                       *)
(*                                                                         *)
(* Strings are sequences of one-character strings, so that stems, lower-   *)
(* casing and the ordering used by sorted(..., key=str.lower) are computed *)
(* and not assumed.                                                        *)
(***************************************************************************)
EXTENDS Integers, Sequences, FiniteSets, TLC

(***************************************************************************)
(* Bounds of the model.                                                    *)
(***************************************************************************)
\* file contents are the byte strings of length 0..MaxSize
MaxSize == 1
\* at most this many files of the tree are faulty: they refuse deletion
\* (os.remove raises) or cannot be read (open raises)
MaxFaulty == 1

(***************************************************************************)
(* Characters and strings.                                                 *)
(***************************************************************************)
\* Python's None, where a string is expected
None == <<"None">>

\* the elements of a sequence
Range(s) == {s[i] : i \in 1..Len(s)}

\* the position of an element in a sequence without repetitions
Index(s, c) == CHOOSE i \in 1..Len(s) : s[i] = c

LowerAlphabet ==
    <<"a", "b", "c", "d", "e", "f", "g", "h", "i", "j", "k", "l", "m",
      "n", "o", "p", "q", "r", "s", "t", "u", "v", "w", "x", "y", "z">>
UpperAlphabet ==
    <<"A", "B", "C", "D", "E", "F", "G", "H", "I", "J", "K", "L", "M",
      "N", "O", "P", "Q", "R", "S", "T", "U", "V", "W", "X", "Y", "Z">>

\* the character is a letter (the model has no digits)
IsLetter(c) == c \in Range(LowerAlphabet) \cup Range(UpperAlphabet)

LowerLetters == Range(LowerAlphabet)
UpperLetters == Range(UpperAlphabet)
Punctuation == {" ", "(", ")", "-", ".", "/", "[", "]", "_"}

\* ord(c) for the characters the model uses
OrdTable ==
    [c \in LowerLetters \cup UpperLetters \cup Punctuation |->
        IF c \in LowerLetters THEN 96 + Index(LowerAlphabet, c)
        ELSE IF c \in UpperLetters THEN 64 + Index(UpperAlphabet, c)
        ELSE CASE c = " " -> 32
               [] c = "(" -> 40
               [] c = ")" -> 41
               [] c = "-" -> 45
               [] c = "." -> 46
               [] c = "/" -> 47
               [] c = "[" -> 91
               [] c = "]" -> 93
               [] c = "_" -> 95]
Ord(c) == OrdTable[c]

\* str.lower on one character
LowerTable ==
    [c \in UpperLetters |-> LowerAlphabet[Index(UpperAlphabet, c)]]
LowerChar(c) == IF c \in UpperLetters THEN LowerTable[c] ELSE c

\* str.upper on one character
UpperTable ==
    [c \in LowerLetters |-> UpperAlphabet[Index(LowerAlphabet, c)]]
UpperChar(c) == IF c \in LowerLetters THEN UpperTable[c] ELSE c

\* str.lower
Lower(s) == [i \in 1..Len(s) |-> LowerChar(s[i])]

\* s < t for Python strings: lexicographic by code point
RECURSIVE StrLess(_, _)
StrLess(s, t) ==
    IF t = <<>> THEN FALSE
    ELSE IF s = <<>> THEN TRUE
    ELSE IF Ord(Head(s)) < Ord(Head(t)) THEN TRUE
    ELSE IF Ord(Head(s)) > Ord(Head(t)) THEN FALSE
    ELSE StrLess(Tail(s), Tail(t))

\* str.rfind(c): the last index of c in s, 0 when there is none (1-based)
RFind(s, c) ==
    LET hits == {i \in 1..Len(s) : s[i] = c}
    IN  IF hits = {} THEN 0 ELSE CHOOSE i \in hits : \A j \in hits : j <= i

\* pathlib.PurePath.name: the final component of a path
BaseName(p) == SubSeq(p, RFind(p, "/") + 1, Len(p))

\* pathlib.PurePath.stem: the final component without its last suffix; a
\* leading or a trailing dot does not start a suffix
Stem(p) ==
    LET name == BaseName(p)
        i == RFind(name, ".")
    IN  IF 1 < i /\ i < Len(name) THEN SubSeq(name, 1, i - 1) ELSE name

\* os.path.join(a, b) for a relative b and an a without a trailing separator
Join(a, b) == a \o <<"/">> \o b

\* s.startswith(pre)
StartsWith(s, pre) == Len(pre) <= Len(s) /\ SubSeq(s, 1, Len(pre)) = pre


(***************************************************************************)
(* naming.py: check_filename, on strings over the model's characters       *)
(***************************************************************************)
\* str.upper
Upper(s) == [i \in 1..Len(s) |-> UpperChar(s[i])]

\* str.capitalize: the first character upper case, the rest lower case
Capitalize(s) ==
    [i \in 1..Len(s) |-> IF i = 1 THEN UpperChar(s[i]) ELSE LowerChar(s[i])]

\* str.title: a letter after a non-letter upper case, the others lower case
Title(s) ==
    [i \in 1..Len(s) |->
        IF i = 1 \/ ~IsLetter(s[i - 1]) THEN UpperChar(s[i])
        ELSE LowerChar(s[i])]

\* str.strip(chars)
RECURSIVE Strip(_, _)
Strip(s, chars) ==
    IF s = <<>> THEN s
    ELSE IF Head(s) \in chars THEN Strip(Tail(s), chars)
    ELSE IF s[Len(s)] \in chars THEN Strip(SubSeq(s, 1, Len(s) - 1), chars)
    ELSE s

\* str.replace(c, by) for a one-character c
RECURSIVE Replace(_, _, _)
Replace(s, c, by) ==
    IF s = <<>> THEN <<>>
    ELSE (IF Head(s) = c THEN by ELSE <<Head(s)>>) \o Replace(Tail(s), c, by)

\* ' '.join(s.split()): runs of spaces become one space, none at the ends
RECURSIVE JoinSplit(_)
JoinSplit(s) ==
    LET t == Strip(s, {" "})
    IN  IF t = <<>> THEN <<>>
        ELSE IF Head(t) = " " THEN JoinSplit(Tail(t))
        ELSE IF Len(t) >= 2 /\ t[2] = " "
             THEN <<Head(t), " ">> \o JoinSplit(Tail(t))
             ELSE <<Head(t)>> \o JoinSplit(Tail(t))

\* pathlib.PurePath.suffix: the last suffix of the final component
Suffix(p) ==
    LET name == BaseName(p)
        i == RFind(name, ".")
    IN  IF 1 < i /\ i < Len(name) THEN SubSeq(name, i, Len(name)) ELSE <<>>

\* the style names
CAPITALIZED == <<"c", "a", "p", "i", "t", "a", "l", "i", "z", "e", "d">>
TITLECASE == <<"t", "i", "t", "l", "e", "c", "a", "s", "e">>
LOWERCASE == <<"l", "o", "w", "e", "r", "c", "a", "s", "e">>
UPPERCASE == <<"u", "p", "p", "e", "r", "c", "a", "s", "e">>
STYLE_NAMES == {CAPITALIZED, TITLECASE, LOWERCASE, UPPERCASE}
STRIPPING_CHARS == {" ", "_", "-"}

\* ADJACENT_PERIOD_PATTERN, first group: [^A-Z\d)\]] ignoring case
BeforePeriod(c) == ~IsLetter(c) /\ c \notin {")", "]"}

\* ADJACENT_PERIOD_PATTERN, second group: [^A-Z\d(\[] ignoring case
AfterPeriod(c) == ~IsLetter(c) /\ c \notin {"(", "["}

\* ADJACENT_PERIOD_PATTERN.sub('.', s): leftmost matches, each greedy: an
\* optional character before the period, the period, an optional one after
RECURSIVE SubPeriods(_)
SubPeriods(s) ==
    IF s = <<>> THEN <<>>
    ELSE LET pre == Len(s) >= 2 /\ BeforePeriod(s[1]) /\ s[2] = "."
             dot == IF pre THEN 2 ELSE 1
             hit == pre \/ s[1] = "."
             post == hit /\ Len(s) > dot /\ AfterPeriod(s[dot + 1])
             used == IF post THEN dot + 1 ELSE dot
         IN  IF hit THEN <<".">> \o SubPeriods(SubSeq(s, used + 1, Len(s)))
             ELSE <<Head(s)>> \o SubPeriods(Tail(s))

\* check_filename, lines 59-74: the naming style
Styled(name, style) ==
    IF style = CAPITALIZED THEN Capitalize(name)
    ELSE IF style = TITLECASE THEN Title(name)
    ELSE IF style = LOWERCASE THEN Lower(name)
    ELSE IF style = UPPERCASE THEN Upper(name)
    ELSE name

\* check_filename(filename, style, space_char); None for an absent option
check_filename(filename, style, space_char) ==
    LET stem == Stem(filename)
        ext == Suffix(filename)
        name_spaces == JoinSplit(Strip(stem, STRIPPING_CHARS))
        name_styled == IF style # None THEN Styled(name_spaces, style)
                       ELSE name_spaces
        name == IF stem = <<>> THEN stem
                ELSE IF space_char # None
                     THEN Replace(name_styled, " ", space_char)
                     ELSE name_styled
        ext_lowering == Lower(Replace(ext, " ", <<>>))
    IN  SubPeriods(name \o ext_lowering)

(***************************************************************************)
(* The directory tree.  A target directory holds the files RootNames and   *)
(* one subdirectory SubName holding the files SubNames; each file is       *)
(* absent or present with some content.  A file is identified by its path  *)
(* relative to the target directory.                                       *)
(***************************************************************************)
RootNames == << <<"a", ".", "t">>, <<"B", ".", "T">>, <<"a", "b", ".", "t">> >>
SubName == <<"s">>
SubNames == << <<"b", "c", ".", "t">> >>

RootIds == Range(RootNames)
SubIds == {Join(SubName, n) : n \in Range(SubNames)}
FileIds == RootIds \cup SubIds

\* the byte strings a file may hold; all bytes are equal, so that two
\* contents are identical exactly when they have the same length
Contents == {[i \in 1..n |-> 1] : n \in 0..MaxSize}

Absent == [present |-> FALSE, data |-> <<>>]
FileStates == {Absent} \cup {[present |-> TRUE, data |-> c] : c \in Contents}

\* the directory arguments: "." (the working directory is the tree itself),
\* "d" (the tree is the directory d of the working directory) and "x" (no
\* such directory)
Dot == <<".">>
Targets == {Dot, <<"d">>, <<"x">>}

VARIABLES
    fs,          \* FileIds -> file state: the tree's files
    unreadable,  \* the files open() fails on
    locked,      \* the files os.remove() fails on
    listing,     \* the order in which os.scandir yields the names present
    directory,   \* remove_duplicates: argument directory
    recursive,   \* remove_duplicates: argument recursive
    dry_run,     \* remove_duplicates: argument dry_run
    cl,          \* remove_duplicates: argument cl, a ChangeLog
    pc,          \* where the call is: idle, groups, removing, recording,
                 \* returned
    run,         \* the number of calls of remove_duplicates started
    processed,   \* remove_duplicates: the dict of find_duplicates
    gi,          \* index of the dict item the outer loop is at
    shortest,    \* remove_duplicates: shortest
    others,      \* remove_duplicates: others
    oi,          \* index of the duplicate the inner loop is at
    ret,         \* what the call returned
    fs0,         \* history: the tree when the current call started
    deleted,     \* history: paths os.remove() succeeded on in this call
    failed,      \* history: paths os.remove() raised on in this call
    attempted,   \* history: paths the inner loop has handled in this call
    prev,        \* history: the previous call: its mode, ledger and outcome
    operations,      \* cli: operations_text.split(',')
    targets,         \* cli: the target paths of the command line
    changelog_path,  \* cli: the --changelog path, None when absent
    style_text,      \* cli: the --style text, None when absent
    space_char,      \* cli: the --space text, None when absent
    cpc,             \* cli: where the process is: off, start, ops, exited
    valid_targets,   \* cli: valid_targets
    opi,             \* cli: index of the operation the loop is at
    ti,              \* cli: index of the target, 0 before the operation starts
    bytes_freed,     \* cli: bytes_freed
    root,            \* cli: the properties added to the ledger root
    saved,           \* cli: the ledger file has been written
    status,          \* cli: the exit status, -1 while running
    logged,          \* cli: the errors and warnings logged
    calls,           \* history: the operation calls made, in order
    effects,         \* history: directories removed and renames made
    group,       \* shortest_filename: argument files
    mtime,       \* the modification time of each path of the group
    chosen       \* shortest_filename: the pair it returned

dupVars == <<fs, unreadable, locked, listing, directory, recursive, dry_run, cl,
             pc, run, processed, gi, shortest, others, oi, ret, fs0, deleted,
             failed, attempted, prev>>

cliVars == <<operations, targets, changelog_path, style_text, space_char,
             cpc, valid_targets, opi, ti, bytes_freed, root, saved, status,
             logged, calls, effects>>

selVars == <<group, mtime, chosen>>

\* the paths a group handed to shortest_filename is made of, their
\* modification times, and the longest group
SelPaths ==
    {<<"d", "/", "a", ".", "t">>, <<"d", "/", "A", ".", "t">>,
     <<"d", "/", "B", ".", "T">>, <<"d", "/", "a", "b", ".", "t">>,
     <<"d", "/", "s", "/", "c", ".", "t">>}
MaxTime == 2
MaxGroup == 3
NoTimes == [p \in SelPaths |-> 1]
\* the pair (shortest, others) before any path has been looked at
NoChoice == [shortest |-> None, others |-> <<>>]

\* shortest_filename is not under way
SelOff == group = <<>> /\ mtime = NoTimes /\ chosen = NoChoice

(***************************************************************************)
(* Path resolution, as the operating system does it for the process.       *)
(***************************************************************************)
NoFile == <<>>

\* the tree-relative path a path string names, NoFile when it is outside
\* the tree.  A path that does not start with the target directory is
\* relative to the working directory, which is the tree only for ".".
TreePath(p) ==
    IF directory \in {Dot, <<"d">>} /\ StartsWith(p, directory \o <<"/">>)
    THEN SubSeq(p, Len(directory) + 2, Len(p))
    ELSE IF directory = Dot THEN p
    ELSE NoFile

\* the path string names the target directory itself
IsRoot(p) == directory \in {Dot, <<"d">>} /\ p = directory

\* the path string names the subdirectory
IsSub(p) == ~IsRoot(p) /\ TreePath(p) = SubName

\* os.path.isdir
IsDir(p) == IsRoot(p) \/ IsSub(p)

\* the file a path string names is present
IsFile(p) == TreePath(p) \in FileIds /\ fs[TreePath(p)].present

\* os.path.exists
PathExists(p) == IsDir(p) \/ IsFile(p)

\* the arrangements of a set of names in a sequence
Orders(S) ==
    {o \in [1..Cardinality(S) -> S] :
        \A i, j \in 1..Cardinality(S) : o[i] = o[j] => i = j}

\* the orders os.scandir may yield the files of the tree in: any order of
\* the files of the target directory, any order of those of the
\* subdirectory
ScandirOrders(tree) ==
    {p \o q : p \in Orders({n \in RootIds : tree[n].present}),
              q \in Orders({n \in Range(SubNames) :
                               tree[Join(SubName, n)].present})}

\* os.scandir order of the entries of a directory that holds `names`
Listing(names) == SelectSeq(listing, LAMBDA n : n \in Range(names))

\* the names of a directory of the tree that are present, in listing order
PresentNames(names, prefix) ==
    SelectSeq(Listing(names), LAMBDA n : fs[prefix \o n].present)

\* os.walk(top): the (dirpath, dirnames, filenames) triples, top-down;
\* errors of scandir are ignored (onerror=None), so a top that is no
\* directory yields nothing
os_walk(top) ==
    LET sub(cd) == [cd |-> cd, dirs |-> <<>>,
                    files |-> PresentNames(SubNames, SubName \o <<"/">>)]
    IN  IF IsRoot(top)
        THEN << [cd |-> top, dirs |-> <<SubName>>,
                 files |-> PresentNames(RootNames, <<>>)],
                sub(Join(top, SubName)) >>
        ELSE IF IsSub(top) THEN << sub(top) >>
        ELSE <<>>

(***************************************************************************)
(* duplicates.py                                                           *)
(***************************************************************************)
\* hashlib.sha512 of a byte string: equal digests exactly for equal input
Digest(data) == <<"sha512", data>>

\* hash_file(l, path): the digest and the size, size -1 on error
hash_file(path) ==
    IF PathExists(path)
    THEN IF IsFile(path) /\ TreePath(path) \notin unreadable
         THEN [hash |-> Digest(fs[TreePath(path)].data),
               size |-> Len(fs[TreePath(path)].data)]
         ELSE [hash |-> Digest(<<>>), size |-> -1]
    ELSE [hash |-> Digest(<<>>), size |-> -1]

\* the dict `possible` / `processed`: a sequence of items in insertion order
DictKeys(d, field) == {d[i][field] : i \in 1..Len(d)}

\* shortest_filename, first loop: the files by stem length, a dict
\* {size: [file]} in insertion order.  possible.get(size) is falsy for a
\* missing key (the lists are never empty).
RECURSIVE BySize(_, _)
BySize(files, possible) ==
    IF files = <<>> THEN possible
    ELSE LET file == Head(files)
             size == Len(Stem(file))
             get == {i \in 1..Len(possible) : possible[i].size = size}
         IN  BySize(Tail(files),
                 IF get # {}
                 THEN [i \in 1..Len(possible) |->
                         IF i \in get
                         THEN [possible[i] EXCEPT !.files = Append(@, file)]
                         ELSE possible[i]]
                 ELSE Append(possible, [size |-> size, files |-> <<file>>]))

\* a variant that sorts by the path strings as they are
RECURSIVE SortedPlain(_)
SortedPlain(files) ==
    IF files = <<>> THEN <<>>
    ELSE LET n == Len(files)
             done == SortedPlain(SubSeq(files, 1, n - 1))
             x == files[n]
             k == Cardinality({i \in 1..Len(done) : ~StrLess(x, done[i])})
         IN  SubSeq(done, 1, k) \o <<x>> \o SubSeq(done, k + 1, Len(done))

\* sorted(files, key=str.lower): a stable sort, equal keys keep their order
RECURSIVE SortedLower(_)
SortedLower(files) ==
    IF files = <<>> THEN <<>>
    ELSE LET n == Len(files)
             done == SortedLower(SubSeq(files, 1, n - 1))
             x == files[n]
             \* x goes after every element whose key is not greater
             k == Cardinality({i \in 1..Len(done) :
                                 ~StrLess(Lower(x), Lower(done[i]))})
         IN  SubSeq(done, 1, k) \o <<x>> \o SubSeq(done, k + 1, Len(done))

\* min(possible.keys())
MinSize(possible) ==
    CHOOSE m \in DictKeys(possible, "size") :
        \A k \in DictKeys(possible, "size") : m <= k

\* a variant that also schedules the other paths of minimal stem length
RECURSIVE PickShortestTies(_, _, _)
PickShortestTies(possible, i, acc) ==
    IF i > Len(possible) THEN acc
    ELSE LET sorted_files == SortedLower(possible[i].files)
         IN  PickShortestTies(possible, i + 1,
                 IF possible[i].size = MinSize(possible)
                 THEN [acc EXCEPT !.shortest = sorted_files[1],
                                  !.others = @ \o Tail(sorted_files)]
                 ELSE [acc EXCEPT !.others = @ \o sorted_files])

\* shortest_filename, second loop, from item i on
RECURSIVE PickShortest(_, _, _)
PickShortest(possible, i, acc) ==
    IF i > Len(possible) THEN acc
    ELSE LET sorted_files == SortedLower(possible[i].files)
         IN  PickShortest(possible, i + 1,
                 IF possible[i].size = MinSize(possible)
                 THEN [acc EXCEPT !.shortest = sorted_files[1]]
                 ELSE [acc EXCEPT !.others = @ \o sorted_files])

\* shortest_filename(files): the pair (shortest, others)
shortest_filename(files) ==
    PickShortest(BySize(files, <<>>), 1, NoChoice)

\* find_duplicates, lines 97-103: one path recorded under its hash
Record(dict, hash, path) ==
    IF hash \in DictKeys(dict, "hash")
    THEN [i \in 1..Len(dict) |->
            IF dict[i].hash = hash
            THEN [dict[i] EXCEPT !.files = Append(@, path)]
            ELSE dict[i]]
    ELSE Append(dict, [hash |-> hash, files |-> <<path>>])

\* find_duplicates, lines 90-105: the files of one directory
RECURSIVE HashFiles(_, _, _)
HashFiles(cd, files, dict) ==
    IF files = <<>> THEN dict
    ELSE LET path == Join(cd, Head(files))
             h == hash_file(path)
         IN  HashFiles(cd, Tail(files),
                 IF h.size >= 0 THEN Record(dict, h.hash, path) ELSE dict)

\* find_duplicates(l, directory, recursive, preprocessed): os.walk visits
\* every directory below `dir` whatever `rec` is; with `rec` each directory
\* name of a triple is in addition scanned as a path of its own, relative
\* to the working directory
RECURSIVE find_duplicates(_, _, _)
RECURSIVE ScanSubs(_, _, _)
RECURSIVE ScanWalk(_, _, _)

ScanSubs(dirs, rec, dict) ==
    IF dirs = <<>> THEN dict
    ELSE ScanSubs(Tail(dirs), rec, find_duplicates(Head(dirs), rec, dict))

ScanWalk(walk, rec, dict) ==
    IF walk = <<>> THEN dict
    ELSE LET hashed == HashFiles(Head(walk).cd, Head(walk).files, dict)
         IN  ScanWalk(Tail(walk), rec,
                 IF rec THEN ScanSubs(Head(walk).dirs, rec, hashed)
                 ELSE hashed)

find_duplicates(dir, rec, preprocessed) ==
    IF PathExists(dir)
    THEN IF IsDir(dir) THEN ScanWalk(os_walk(dir), rec, preprocessed)
         ELSE preprocessed
    ELSE preprocessed

(***************************************************************************)
(* common.py: ChangeLog                                                    *)
(***************************************************************************)
\* ChangeLog.__init__
NewChangeLog == [counter |-> 0, changes |-> <<>>]

\* ChangeLog.addChange(operation, action, executed, **kwargs)
addChange(log, operation, action, executed, kwargs) ==
    [counter |-> log.counter + 1,
     changes |-> Append(log.changes,
                    kwargs @@ [id |-> log.counter, operation |-> operation,
                               action |-> action, executed |-> executed])]

(***************************************************************************)
(* duplicates.py: remove_duplicates, one action per loop step              *)
(***************************************************************************)
\* __name__ of the module duplicates
DUPLICATES_MODULE == "duplicates"

\* os.remove(path) succeeds: the path names a present file that can be
\* unlinked; otherwise it raises OSError
os_remove_ok(path) == IsFile(path) /\ TreePath(path) \notin locked

\* the tree after os.remove(path) succeeded
os_remove(path) == [fs EXCEPT ![TreePath(path)] = Absent]

\* a variant that ignores the dry-run flag
AppliesAlways(dry) == TRUE

\* line 153: the branch that touches the filesystem
Applies(dry) == ~dry

\* line 156: the entry of a removal that was carried out
RemovedChange(log, duplicate, original) ==
    addChange(log, DUPLICATES_MODULE, "remove", TRUE,
              [path |-> duplicate, original |-> original])

\* line 160: the entry of a removal that was only previewed
PreviewChange(log, duplicate, original) ==
    addChange(log, DUPLICATES_MODULE, "remove", FALSE,
              [path |-> duplicate, original |-> original])

\* ChangeLog._root before addRootProperties: only the changes
NoRoot == [written |-> FALSE, version |-> 0, bytes_freed |-> 0]

NoPrev == [dry |-> FALSE, changes |-> <<>>, deleted |-> {}, failed |-> {},
           fs0 |-> [f \in FileIds |-> Absent]]

DupInit ==
    /\ fs \in [FileIds -> FileStates]
    /\ unreadable \in SUBSET {f \in FileIds : fs[f].present}
    /\ locked \in SUBSET {f \in FileIds : fs[f].present}
    /\ Cardinality(unreadable) + Cardinality(locked) <= MaxFaulty
    /\ listing \in ScandirOrders(fs)
    /\ directory \in Targets
    /\ recursive \in BOOLEAN
    /\ dry_run = FALSE
    /\ cl = NewChangeLog
    /\ pc = "idle"
    /\ run = 0
    /\ processed = <<>>
    /\ gi = 1
    /\ shortest = None
    /\ others = <<>>
    /\ oi = 1
    /\ ret = "unset"
    /\ fs0 = fs
    /\ deleted = {}
    /\ failed = {}
    /\ attempted = <<>>
    /\ prev = NoPrev
    /\ operations = <<>>
    /\ targets = <<>>
    /\ changelog_path = None
    /\ style_text = None
    /\ space_char = None
    /\ cpc = "off"
    /\ valid_targets = <<>>
    /\ opi = 1
    /\ ti = 0
    /\ bytes_freed = 0
    /\ root = NoRoot
    /\ saved = FALSE
    /\ status = -1
    /\ logged = {}
    /\ calls = <<>>
    /\ effects = {}
    /\ SelOff

\* the caller: remove_duplicates(l, ChangeLog(), directory, dry, recursive);
\* lines 130-133 and 161-164
Call(dry) ==
    /\ pc \in {"idle", "returned"}
    /\ run < 2
    \* the second call is the apply-mode run the first is compared with
    /\ run = 1 => ~dry
    /\ run' = run + 1
    /\ prev' = IF run = 0 THEN prev
               ELSE [dry |-> dry_run, changes |-> cl.changes,
                     deleted |-> deleted, failed |-> failed, fs0 |-> fs0]
    /\ dry_run' = dry
    /\ cl' = NewChangeLog
    /\ fs0' = fs
    /\ deleted' = {}
    /\ failed' = {}
    /\ attempted' = <<>>
    /\ gi' = 1
    /\ shortest' = None
    /\ others' = <<>>
    /\ oi' = 1
    /\ IF PathExists(directory) /\ IsDir(directory)
       THEN /\ processed' = find_duplicates(directory, recursive, <<>>)
            /\ pc' = "groups"
            /\ ret' = "unset"
       ELSE /\ processed' = <<>>
            /\ pc' = "returned"
            /\ ret' = "None"
    /\ UNCHANGED <<fs, unreadable, locked, listing, directory, recursive>>
    /\ UNCHANGED <<cliVars, selVars>>

\* lines 137-147: the next item of the dict
Group ==
    /\ pc = "groups"
    /\ gi <= Len(processed)
    /\ LET files == processed[gi].files
           file_count == Len(files)
       IN  IF file_count > 1
           THEN /\ shortest' = shortest_filename(files).shortest
                /\ others' = shortest_filename(files).others
                /\ oi' = 1
                /\ pc' = "removing"
                /\ gi' = gi
           ELSE /\ gi' = gi + 1
                /\ UNCHANGED <<shortest, others, oi, pc>>
    /\ UNCHANGED <<fs, unreadable, locked, listing, directory, recursive, dry_run,
                   cl, run, processed, ret, fs0, deleted, failed, attempted,
                   prev>>
    /\ UNCHANGED <<cliVars, selVars>>

\* lines 150-155 and 157-160: one duplicate of the group, up to os.remove
\* in apply mode (which succeeds, or raises OSError and is only logged),
\* and the whole of the preview in a dry run
RemoveDuplicate ==
    /\ pc = "removing"
    /\ oi <= Len(others)
    /\ LET duplicate == others[oi]
       IN  /\ attempted' = Append(attempted,
                               [path |-> duplicate, original |-> shortest])
           /\ IF Applies(dry_run)
              THEN IF os_remove_ok(duplicate)
                   THEN /\ fs' = os_remove(duplicate)
                        /\ deleted' = deleted \cup {duplicate}
                        /\ pc' = "recording"
                        /\ UNCHANGED <<cl, failed, oi>>
                   ELSE \* OSError: logged, nothing recorded
                        /\ failed' = failed \cup {duplicate}
                        /\ oi' = oi + 1
                        /\ UNCHANGED <<fs, cl, deleted, pc>>
              ELSE /\ cl' = PreviewChange(cl, duplicate, shortest)
                   /\ oi' = oi + 1
                   /\ UNCHANGED <<fs, deleted, failed, pc>>
    /\ UNCHANGED <<unreadable, locked, listing, directory, recursive, dry_run,
                   run, processed, gi, shortest, others, ret, fs0, prev>>
    /\ UNCHANGED <<cliVars, selVars>>

\* line 156: the ledger entry of the removal os.remove has just made
RecordRemoval ==
    /\ pc = "recording"
    /\ cl' = RemovedChange(cl, others[oi], shortest)
    /\ oi' = oi + 1
    /\ pc' = "removing"
    /\ UNCHANGED <<fs, unreadable, locked, listing, directory, recursive,
                   dry_run, run, processed, gi, shortest, others, ret, fs0,
                   deleted, failed, attempted, prev>>
    /\ UNCHANGED <<cliVars, selVars>>

\* the inner loop is exhausted: on to the next item
EndGroup ==
    /\ pc = "removing"
    /\ oi > Len(others)
    /\ gi' = gi + 1
    /\ pc' = "groups"
    /\ UNCHANGED <<fs, unreadable, locked, listing, directory, recursive, dry_run,
                   cl, run, processed, shortest, others, oi, ret, fs0,
                   deleted, failed, attempted, prev>>
    /\ UNCHANGED <<cliVars, selVars>>

\* the outer loop is exhausted: the function ends without a return
\* statement, so the call evaluates to None
Return ==
    /\ pc = "groups"
    /\ gi > Len(processed)
    /\ pc' = "returned"
    /\ ret' = "None"
    /\ UNCHANGED <<fs, unreadable, locked, listing, directory, recursive, dry_run,
                   cl, run, processed, gi, shortest, others, oi, fs0, deleted,
                   failed, attempted, prev>>
    /\ UNCHANGED <<cliVars, selVars>>

(***************************************************************************)
(* Python call binding.                                                    *)
(***************************************************************************)
\* a call binds when every parameter without a default receives a
\* positional or a keyword argument; otherwise it raises TypeError before
\* the body runs
Binds(params, positional, keywords) ==
    /\ Len(positional) <= Len(params)
    /\ \A i \in 1..Len(params) : i > Len(positional) => params[i] \in keywords

\* def remove_duplicates(l, cl, directory, dry_run, recursive)
REMOVE_DUPLICATES_PARAMS == <<"l", "cl", "directory", "dry_run", "recursive">>

\* def addChange(self, operation, action, executed, **kwargs), without self
ADD_CHANGE_PARAMS == <<"operation", "action", "executed">>

(***************************************************************************)
(* empties.py and naming.py, as cli.py calls them.  A call is folded over  *)
(* the items it visits; `st` carries the tree, the ledger, the directories *)
(* removed and renames made, and whether an exception left the call.       *)
(***************************************************************************)
\* the file is present in the tree `tree`
Present(tree, p) == TreePath(p) \in FileIds /\ tree[TreePath(p)].present

\* empties.py: every cl.addChange call passes (__name__, <bool>) and
\* keywords among path, message, errno
EmptiesAddChangeRaises ==
    ~Binds(ADD_CHANGE_PARAMS, <<"__name__", "executed">>,
           {"path", "message", "errno"})

\* naming.py: every cl.addChange call passes (__name__, <bool>) and
\* keywords among src, dest, message, errno
NamingAddChangeRaises ==
    ~Binds(ADD_CHANGE_PARAMS, <<"__name__", "executed">>,
           {"src", "dest", "message", "errno"})

\* remove_empty: what the walk visits: the files of a directory, then its
\* subdirectories; only the first directory without the recursion flag
RECURSIVE EmptiesVisits(_, _)
EmptiesVisits(walk, rec) ==
    IF walk = <<>> THEN <<>>
    ELSE LET t == Head(walk)
         IN  [k \in 1..Len(t.files) |->
                 [kind |-> "file", path |-> Join(t.cd, t.files[k])]]
             \o [k \in 1..Len(t.dirs) |->
                 [kind |-> "dir", path |-> Join(t.cd, t.dirs[k])]]
             \o (IF rec THEN EmptiesVisits(Tail(walk), rec) ELSE <<>>)

\* remove_empty, lines 15-37 and 38-71: one visited item
EmptiesStep(v, st, dry) ==
    IF v.kind = "file"
    THEN IF Len(st.fs[TreePath(v.path)].data) = 0
         THEN [st EXCEPT
                 !.fs = IF ~dry /\ TreePath(v.path) \notin locked
                        THEN [@ EXCEPT ![TreePath(v.path)] = Absent] ELSE @,
                 !.raised = EmptiesAddChangeRaises]
         ELSE st
    ELSE IF v.path \notin st.effects /\
            \A f \in SubIds : ~st.fs[f].present
         THEN [st EXCEPT
                 !.effects = IF ~dry THEN @ \cup {v.path} ELSE @,
                 !.raised = EmptiesAddChangeRaises]
         ELSE st

RECURSIVE EmptiesRun(_, _, _)
EmptiesRun(visits, st, dry) ==
    IF visits = <<>> \/ st.raised THEN st
    ELSE EmptiesRun(Tail(visits), EmptiesStep(Head(visits), st, dry), dry)

\* remove_empty(cl, directory, dry_run, recursive)
remove_empty(st, dir, dry, rec) ==
    EmptiesRun(EmptiesVisits(os_walk(dir), rec), st, dry)

\* rename_dir: the files the walk hands to rename_files, with the style
\* and space character in force: os.walk visits every directory, and with
\* the recursion flag each directory name is in addition walked as a path
\* of its own, without style and space character
RECURSIVE NamingVisits(_, _, _, _)
RECURSIVE NamingWalk(_, _, _, _)
RECURSIVE NamingSubs(_, _)

NamingSubs(dirs, rec) ==
    IF dirs = <<>> THEN <<>>
    ELSE NamingVisits(Head(dirs), rec, None, None) \o NamingSubs(Tail(dirs), rec)

NamingWalk(walk, rec, style, space) ==
    IF walk = <<>> THEN <<>>
    ELSE LET t == Head(walk)
         IN  [k \in 1..Len(t.files) |->
                 [cd |-> t.cd, file |-> t.files[k],
                  style |-> style, space |-> space]]
             \o (IF rec THEN NamingSubs(t.dirs, rec) ELSE <<>>)
             \o NamingWalk(Tail(walk), rec, style, space)

NamingVisits(dir, rec, style, space) ==
    NamingWalk(os_walk(dir), rec, style, space)

\* rename_files, lines 143-172: one file
NamingStep(v, st, dry) ==
    LET nf == check_filename(v.file, v.style, v.space)
        path == Join(v.cd, v.file)
        dest == Join(v.cd, nf)
        dest_exists == IsDir(dest) \/ Present(st.fs, dest) \/
                       \E e \in st.effects : e = <<path, dest>>
        renames == ~dry /\ ~dest_exists /\ Present(st.fs, path) /\
                   TreePath(path) \notin locked
    IN  IF nf # v.file
        THEN [st EXCEPT
                !.fs = IF renames THEN [@ EXCEPT ![TreePath(path)] = Absent]
                       ELSE @,
                !.effects = IF renames THEN @ \cup {<<path, dest>>} ELSE @,
                !.raised = NamingAddChangeRaises]
        ELSE st

RECURSIVE NamingRun(_, _, _)
NamingRun(visits, st, dry) ==
    IF visits = <<>> \/ st.raised THEN st
    ELSE NamingRun(Tail(visits), NamingStep(Head(visits), st, dry), dry)

\* rename_dir(cl, directory, dry_run, recursive, style, space_char)
rename_dir(st, dir, dry, rec, style, space) ==
    NamingRun(NamingVisits(dir, rec, style, space), st, dry)

(***************************************************************************)
(* cli.py: the main program                                                *)
(***************************************************************************)
NAMING_OPERATION == <<"n", "a", "m", "i", "n", "g">>
EMPTIES_OPERATION == <<"e", "m", "p", "t", "i", "e", "s">>
DUPLICATES_OPERATION == <<"d", "u", "p", "l", "i", "c", "a", "t", "e", "s">>
OPERATION_NAMES == {NAMING_OPERATION, EMPTIES_OPERATION, DUPLICATES_OPERATION}

\* at most this many operations are named on the command line
MaxOps == 2
\* at most this many files are present in the tree of a command line run
MaxCliFiles == 1

\* the operation names a command line may give
OpTokens == {NAMING_OPERATION, <<"E", "m", "p", "t", "i", "e", "s">>,
             DUPLICATES_OPERATION, <<"d", "e", "d", "u", "p", "e">>}

\* the --style texts a command line may give
StyleTexts == {None, <<"U", "p", "p", "e", "r", "c", "a", "s", "e", " ">>,
               <<"b", "o", "l", "d">>}

\* the --space texts a command line may give
SpaceChars == {None, <<"_">>, <<"_", "_">>}

\* the --changelog paths a command line may give
ChangelogPaths == {None, <<"o", "u", "t">>}

\* the operation lists a command line may give: each name at most once
OpLists ==
    {ops \in UNION {[1..n -> OpTokens] : n \in 1..MaxOps} :
        \A i, j \in 1..Len(ops) : ops[i] = ops[j] => i = j}

\* the trees of a command line run: few files, each empty or of one byte
CliTrees ==
    {t \in [FileIds -> {Absent, [present |-> TRUE, data |-> <<>>],
                         [present |-> TRUE, data |-> <<1>>]}] :
        Cardinality({f \in FileIds : t[f].present}) <= MaxCliFiles}

\* lines 164-171: the style the naming operation runs with
NormalStyle(text) == Lower(Strip(text, {" "}))
ResolveStyle(text) ==
    IF text # None /\ NormalStyle(text) \in STYLE_NAMES
    THEN NormalStyle(text) ELSE None

CliInit ==
    /\ fs \in CliTrees
    /\ unreadable = {}
    /\ locked = {}
    /\ listing \in ScandirOrders(fs)
    /\ directory \in {Dot, <<"d">>}
    /\ recursive \in BOOLEAN
    /\ dry_run \in BOOLEAN
    /\ cl = NewChangeLog
    /\ pc = "idle"
    /\ run = 0
    /\ processed = <<>>
    /\ gi = 1
    /\ shortest = None
    /\ others = <<>>
    /\ oi = 1
    /\ ret = "unset"
    /\ fs0 = fs
    /\ deleted = {}
    /\ failed = {}
    /\ attempted = <<>>
    /\ prev = NoPrev
    /\ operations \in OpLists
    /\ targets \in {<< <<"x">> >>, << <<"x">>, directory >>,
                    <<directory, directory>>}
    /\ changelog_path \in ChangelogPaths
    /\ style_text \in StyleTexts
    /\ space_char \in SpaceChars
    /\ cpc = "start"
    /\ valid_targets = <<>>
    /\ opi = 1
    /\ ti = 0
    /\ bytes_freed = 0
    /\ root = NoRoot
    /\ saved = FALSE
    /\ status = -1
    /\ logged = {}
    /\ calls = <<>>
    /\ effects = {}
    /\ SelOff

\* sys.exit(code), or the interpreter ending on an uncaught exception (1)
Exit(code) == cpc' = "exited" /\ status' = code

\* lines 132-157: the option check and the target filter
CliStart ==
    /\ cpc = "start"
    /\ IF space_char # None /\ Len(space_char) > 1
       THEN /\ logged' = logged \cup {"space character"}
            /\ Exit(10)
            /\ UNCHANGED valid_targets
       ELSE /\ valid_targets' = SelectSeq(targets, IsDir)
            /\ logged' = logged \cup
                   {"invalid target" : i \in {j \in 1..Len(targets) :
                                                 ~IsDir(targets[j])}}
            /\ cpc' = "ops"
            /\ UNCHANGED status
    /\ UNCHANGED <<selVars, dupVars, operations, targets, changelog_path, style_text,
                   space_char, opi, ti, bytes_freed, root, saved, calls,
                   effects>>

\* the operation the loop of line 159 is at
AtOp == cpc = "ops" /\ opi <= Len(operations)
OpReversed == Lower(operations[Len(operations) + 1 - opi])
Op == Lower(operations[opi])

\* lines 159-172, 176-178, 182-184, 192-193: the branch of one operation,
\* up to its loop over the targets
CliBeginOp ==
    /\ AtOp
    /\ ti = 0
    /\ IF Op \in OPERATION_NAMES
       THEN /\ ti' = 1
            /\ opi' = opi
            /\ style_text' = IF Op = NAMING_OPERATION /\ style_text # None
                             THEN NormalStyle(style_text) ELSE style_text
            /\ logged' = IF Op = NAMING_OPERATION /\ style_text # None /\
                            ResolveStyle(style_text) = None
                         THEN logged \cup {"unknown style"} ELSE logged
       ELSE /\ opi' = opi + 1
            /\ ti' = 0
            /\ logged' = logged \cup {"unknown operation"}
            /\ UNCHANGED style_text
    /\ UNCHANGED <<selVars, dupVars, operations, targets, changelog_path, space_char,
                   cpc, valid_targets, bytes_freed, root, saved, status,
                   calls, effects>>

\* the state a call of an operation starts from and leaves behind
CallState == [fs |-> fs, cl |-> cl, effects |-> effects, raised |-> FALSE]

AfterCall(op, st) ==
    /\ calls' = Append(calls, [op |-> op, target |-> valid_targets[ti]])
    /\ fs' = st.fs
    /\ cl' = st.cl
    /\ effects' = st.effects
    /\ IF st.raised
       THEN Exit(1) /\ UNCHANGED ti
       ELSE ti' = ti + 1 /\ UNCHANGED <<cpc, status>>
    /\ UNCHANGED <<selVars, unreadable, locked, listing, directory, recursive, dry_run,
                   pc, run, processed, gi, shortest, others, oi, ret, fs0,
                   deleted, failed, attempted, prev, operations, targets,
                   changelog_path, style_text, space_char, valid_targets,
                   opi, bytes_freed, root, saved, logged>>

\* lines 173-175: rename_dir on the next target
CliNaming ==
    /\ AtOp /\ Op = NAMING_OPERATION
    /\ ti >= 1 /\ ti <= Len(valid_targets)
    /\ AfterCall(NAMING_OPERATION,
                 rename_dir(CallState, valid_targets[ti], dry_run, recursive,
                            ResolveStyle(style_text), space_char))

\* lines 180-181: remove_empty on the next target
CliEmpties ==
    /\ AtOp /\ Op = EMPTIES_OPERATION
    /\ ti >= 1 /\ ti <= Len(valid_targets)
    /\ AfterCall(EMPTIES_OPERATION,
                 remove_empty(CallState, valid_targets[ti], dry_run, recursive))

\* lines 186-190: remove_duplicates(cl, target, dry_run, recursive): four
\* arguments for five parameters, so the call raises TypeError and the
\* body of remove_duplicates never runs
CliDuplicates ==
    /\ AtOp /\ Op = DUPLICATES_OPERATION
    /\ ti >= 1 /\ ti <= Len(valid_targets)
    /\ ~Binds(REMOVE_DUPLICATES_PARAMS,
              <<"cl", "target", "dry_run", "recursive">>, {})
    /\ AfterCall(DUPLICATES_OPERATION, [CallState EXCEPT !.raised = TRUE])

\* the loop over the targets is exhausted: the next operation
CliEndOp ==
    /\ AtOp /\ Op \in OPERATION_NAMES
    /\ ti >= 1 /\ ti > Len(valid_targets)
    /\ opi' = opi + 1
    /\ ti' = 0
    /\ UNCHANGED <<selVars, dupVars, operations, targets, changelog_path, style_text,
                   space_char, cpc, valid_targets, bytes_freed, root, saved,
                   status, logged, calls, effects>>

\* lines 195-220: the root properties and the ledger file; open() of the
\* changelog path succeeds (writable) or raises IOError
CliFinish(writable) ==
    /\ cpc = "ops"
    /\ opi > Len(operations)
    /\ root' = [written |-> TRUE, version |-> 2, bytes_freed |-> bytes_freed]
    /\ IF changelog_path # None
       THEN IF writable
            THEN /\ saved' = TRUE
                 /\ Exit(0)
                 /\ UNCHANGED logged
            ELSE /\ logged' = logged \cup {"could not write changelog"}
                 /\ Exit(2)
                 /\ UNCHANGED saved
       ELSE /\ Exit(3)
            /\ UNCHANGED <<saved, logged>>
    /\ UNCHANGED <<selVars, dupVars, operations, targets, changelog_path, style_text,
                   space_char, valid_targets, opi, ti, bytes_freed, calls,
                   effects>>

CallDry == Call(TRUE)
CallApply == Call(FALSE)

vars == <<dupVars, cliVars, selVars>>
Init == DupInit
Next ==
    \/ CallDry \/ CallApply \/ Group \/ RemoveDuplicate \/ RecordRemoval
    \/ EndGroup \/ Return
Spec == Init /\ [][Next]_vars

CliSave == CliFinish(TRUE)
CliSaveFails == CliFinish(FALSE)

\* a call of shortest_filename on a group of distinct paths, each path with
\* a modification time; nothing else is under way
SelInit ==
    /\ group \in {g \in UNION {[1..n -> SelPaths] : n \in 1..MaxGroup} :
                     \A i, j \in 1..Len(g) : g[i] = g[j] => i = j}
    /\ mtime \in [SelPaths -> 1..MaxTime]
    /\ chosen = NoChoice
    /\ fs = [f \in FileIds |-> Absent]
    /\ unreadable = {}
    /\ locked = {}
    /\ listing = <<>>
    /\ directory = <<"d">>
    /\ recursive = FALSE
    /\ dry_run = FALSE
    /\ cl = NewChangeLog
    /\ pc = "idle"
    /\ run = 0
    /\ processed = <<>>
    /\ gi = 1
    /\ shortest = None
    /\ others = <<>>
    /\ oi = 1
    /\ ret = "unset"
    /\ fs0 = fs
    /\ deleted = {}
    /\ failed = {}
    /\ attempted = <<>>
    /\ prev = NoPrev
    /\ operations = <<>>
    /\ targets = <<>>
    /\ changelog_path = None
    /\ style_text = None
    /\ space_char = None
    /\ cpc = "off"
    /\ valid_targets = <<>>
    /\ opi = 1
    /\ ti = 0
    /\ bytes_freed = 0
    /\ root = NoRoot
    /\ saved = FALSE
    /\ status = -1
    /\ logged = {}
    /\ calls = <<>>
    /\ effects = {}

\* shortest, others = shortest_filename(files)
SelectSurvivor ==
    /\ group # <<>>
    /\ chosen = NoChoice
    /\ chosen' = shortest_filename(group)
    /\ UNCHANGED <<group, mtime, dupVars, cliVars>>

SelNext == SelectSurvivor
SpecSel == SelInit /\ [][SelNext]_vars

\* a run of the command line program
CliNext ==
    \/ CliStart \/ CliBeginOp \/ CliNaming \/ CliEmpties \/ CliDuplicates
    \/ CliEndOp \/ CliSave \/ CliSaveFails
SpecCli == CliInit /\ [][CliNext]_vars

(***************************************************************************)
(* Vocabulary of the properties.                                           *)
(***************************************************************************)
\* a call of remove_duplicates has started / has ended
Called == run >= 1
Returned == Called /\ pc = "returned"

\* the (path, original) pairs of a list of ledger entries
Pairs(changes) ==
    [i \in 1..Len(changes) |->
        [path |-> changes[i].path, original |-> changes[i].original]]

\* the removals the call schedules: for every dict item of two or more
\* files, each of `others` with the survivor, in the order of the loops
RECURSIVE Scheduled(_, _)
Scheduled(dict, i) ==
    IF i > Len(dict) THEN <<>>
    ELSE LET r == shortest_filename(dict[i].files)
         IN  (IF Len(dict[i].files) > 1
              THEN [k \in 1..Len(r.others) |->
                      [path |-> r.others[k], original |-> r.shortest]]
              ELSE <<>>) \o Scheduled(dict, i + 1)

\* the path string named a present file of the tree `tree`
FileIn(tree, p) == TreePath(p) \in FileIds /\ tree[TreePath(p)].present

\* the path string named an empty file when the call started
WasEmpty(p) == FileIn(fs0, p) /\ fs0[TreePath(p)].data = <<>>

\* the path string names a file inside the subdirectory
InSubdirectory(p) == TreePath(p) \in SubIds

\* the paths the ledger names
LedgerPaths == {cl.changes[i].path : i \in 1..Len(cl.changes)}

\* the paths the dict holds
DictPaths == UNION {Range(processed[i].files) : i \in 1..Len(processed)}

\* the readable, non-empty files of a tree that share their content with
\* another such file
Twins(tree) ==
    {f \in FileIds : tree[f].present /\ f \notin unreadable /\
                     tree[f].data # <<>> /\
        \E g \in FileIds \ {f} : tree[g].present /\ g \notin unreadable /\
                                 tree[g].data = tree[f].data}

(***************************************************************************)
(* C1 - survivor invariant.  For every duplicate group handed to           *)
(* shortest_filename, the survivor is not in the removal list and the      *)
(* removal list together with the survivor is exactly the group: every     *)
(* other path, ties at the minimal stem length included, is removed.       *)
(***************************************************************************)
C1_SurvivorPartition ==
    (Called /\ pc = "removing") =>
        /\ shortest \notin Range(others)
        /\ Range(others) \cup {shortest} = Range(processed[gi].files)
        /\ Len(others) = Len(processed[gi].files) - 1

(***************************************************************************)
(* C2 - a dry run leaves the tree as it was, and records one entry with    *)
(* executed = FALSE for every scheduled removal.                           *)
(***************************************************************************)
C2_DryRunFrame ==
    (Called /\ dry_run) =>
        /\ fs = fs0
        /\ deleted = {}
        /\ Pairs(cl.changes) = attempted
        /\ \A i \in 1..Len(cl.changes) : cl.changes[i].executed = FALSE
        /\ pc = "returned" => Pairs(cl.changes) = Scheduled(processed, 1)

C2_Witness ==
    /\ Returned /\ dry_run
    /\ Len(cl.changes) >= 2
    /\ \A i \in 1..Len(cl.changes) : IsFile(cl.changes[i].path)

(***************************************************************************)
(* C3 - zero-byte exclusion.  No empty file enters the dict of             *)
(* find_duplicates, none is deleted by remove_duplicates and none is named *)
(* by a ledger entry.                                                      *)
(***************************************************************************)
C3_ZeroByteExcluded ==
    Called =>
        /\ \A p \in DictPaths : ~WasEmpty(p)
        /\ \A p \in deleted : ~WasEmpty(p)
        /\ \A p \in LedgerPaths : ~WasEmpty(p)

(***************************************************************************)
(* C4 - ledger and deletions agree in every state reached during a run,    *)
(* the states between two statements included.  Every path the call has    *)
(* deleted has exactly one ledger entry, with executed = TRUE; no file     *)
(* scheduled for removal has two ledger entries, under one path string or  *)
(* under two; an entry with executed = TRUE names a deleted path, which no *)
(* longer exists.                                                          *)
(***************************************************************************)
C4_LedgerMatchesDeletions ==
    Called =>
        /\ \A p \in deleted :
              /\ Cardinality({i \in 1..Len(cl.changes) :
                                cl.changes[i].path = p}) = 1
              /\ \A i \in 1..Len(cl.changes) :
                    cl.changes[i].path = p => cl.changes[i].executed = TRUE
        /\ \A i, j \in 1..Len(cl.changes) :
              TreePath(cl.changes[i].path) = TreePath(cl.changes[j].path)
                  => i = j
        /\ \A i \in 1..Len(cl.changes) :
              cl.changes[i].executed = TRUE =>
                  /\ cl.changes[i].path \in deleted
                  /\ ~PathExists(cl.changes[i].path)

(***************************************************************************)
(* C6 - idempotence.  A second apply-mode run right after a first one      *)
(* deletes nothing, and after the first run no two files of the tree have  *)
(* identical content.  Stated for the runs over the tree in which no       *)
(* deletion failed, and for the non-empty files that can be read.          *)
(***************************************************************************)
C6_Idempotent ==
    (Returned /\ run = 2 /\ ~prev.dry /\ ~dry_run /\ prev.failed = {}
              /\ IsRoot(directory)) =>
        /\ deleted = {}
        /\ Twins(fs0) = {}

(***************************************************************************)
(* C7 - a dry run and an apply-mode run started from the same tree record  *)
(* the same sequence of (path, original) pairs, also when a deletion of    *)
(* the apply-mode run fails.                                               *)
(***************************************************************************)
C7_DryApplySameLedger ==
    (Returned /\ run = 2 /\ prev.dry /\ ~dry_run) =>
        Pairs(cl.changes) = Pairs(prev.changes)

(***************************************************************************)
(* C8 - a failed deletion is recorded: in apply mode every path whose      *)
(* os.remove raised has a ledger entry with executed = FALSE carrying the  *)
(* path and the error message, and every scheduled removal of every group  *)
(* is still attempted.                                                     *)
(***************************************************************************)
C8_FailureRecorded ==
    (Called /\ ~dry_run) =>
        /\ \A p \in failed :
              \E i \in 1..Len(cl.changes) :
                  /\ cl.changes[i].path = p
                  /\ cl.changes[i].executed = FALSE
                  /\ "message" \in DOMAIN cl.changes[i]
        /\ pc = "returned" => attempted = Scheduled(processed, 1)

(***************************************************************************)
(* C10 - without the recursion flag only the files immediately inside the  *)
(* target directory are considered: no file of a subdirectory is           *)
(* fingerprinted into the dict, deleted or recorded in the ledger.         *)
(***************************************************************************)
C10_NonRecursiveRootOnly ==
    (Called /\ ~recursive) =>
        /\ \A p \in DictPaths : ~InSubdirectory(p)
        /\ \A p \in deleted : ~InSubdirectory(p)
        /\ \A p \in LedgerPaths : ~InSubdirectory(p)

(***************************************************************************)
(* Vocabulary of the command line properties.                              *)
(***************************************************************************)
\* the process has ended
Exited == cpc = "exited"

\* the sizes, when the run started, of the files named by the entries of
\* the duplicate operation that have executed = TRUE, added up
RECURSIVE ExecutedBytes(_)
ExecutedBytes(changes) ==
    IF changes = <<>> THEN 0
    ELSE (IF Head(changes).operation = DUPLICATES_MODULE /\
             Head(changes).executed = TRUE /\ FileIn(fs0, Head(changes).path)
          THEN Len(fs0[TreePath(Head(changes).path)].data) ELSE 0)
         + ExecutedBytes(Tail(changes))

\* the run called the operation `op` on some target
CalledOp(op) == \E i \in 1..Len(calls) : calls[i].op = op

(***************************************************************************)
(* C5 - conservation.  After a run of the command line program that ran    *)
(* the duplicate operation on a target, the ledger root carries            *)
(* bytes_freed, and it is the sum of the sizes of the files whose          *)
(* duplicate-operation entries have executed = TRUE.                       *)
(***************************************************************************)
C5_BytesFreedConserved ==
    (Exited /\ CalledOp(DUPLICATES_OPERATION)) =>
        /\ root.written
        /\ root.bytes_freed = ExecutedBytes(cl.changes)

(***************************************************************************)
(* C9 - propagation policy.  A run ends with a failure status only when    *)
(* the ledger could not be written to the requested path, and it processes *)
(* every operation of the command line.  Stated for the runs whose --space *)
(* value is valid and whose report path is given: there the only failure   *)
(* status left is the one of the failed write.                             *)
(***************************************************************************)
C9_OnlyPersistenceFails ==
    (Exited /\ (space_char = None \/ Len(space_char) <= 1)
            /\ changelog_path # None) =>
        /\ status # 0 =>
              (status = 2 /\ ~saved /\ "could not write changelog" \in logged)
        /\ opi > Len(operations)

(***************************************************************************)
(* The order of the operations of a command line run.                      *)
(***************************************************************************)
\* the place of an operation in the list "duplicate removal, empty-file
\* removal, naming normalization"
ListedRank(op) ==
    IF op = DUPLICATES_OPERATION THEN 1
    ELSE IF op = EMPTIES_OPERATION THEN 2 ELSE 3

\* the i-th call of an operation returned: every call but the last did, and
\* the last did unless an exception ended the process
Ran(i) ==
    /\ i \in 1..Len(calls)
    /\ i = Len(calls) => ~(Exited /\ status = 1)

\* the calls a run makes when no call raises: for each known operation, in
\* the order of the command line, one call per valid target
RECURSIVE CallsInOrder(_, _)
CallsInOrder(ops, valid) ==
    IF ops = <<>> THEN <<>>
    ELSE (IF Lower(Head(ops)) \in OPERATION_NAMES
          THEN [k \in 1..Len(valid) |->
                   [op |-> Lower(Head(ops)), target |-> valid[k]]]
          ELSE <<>>)
         \o CallsInOrder(Tail(ops), valid)

IsPrefix(s, t) == Len(s) <= Len(t) /\ SubSeq(t, 1, Len(s)) = s

\* C11 - Whatever order the selected operations are given in on the command
\* line, they run in one fixed order (duplicate removal, then empty-file
\* removal, then naming normalization): an operation that ran before another
\* one is not later than it in that list, and so all ledger entries of an
\* earlier operation of the list precede those of a later one.
C11_FixedOrder ==
    \A i, j \in 1..Len(calls) :
        (i < j /\ Ran(i) /\ Ran(j)) =>
            ListedRank(calls[i].op) <= ListedRank(calls[j].op)

\* C11 as amended - The selected operations run in the order in which they
\* are given on the command line: the calls made so far are the first calls
\* of the list "for each known operation in command line order, one call per
\* valid target in target order", and a run that ends without an exception
\* has made them all.
C11_CommandLineOrder ==
    /\ IsPrefix(calls, CallsInOrder(operations, SelectSeq(targets, IsDir)))
    /\ (Exited /\ status \in {0, 2, 3}) =>
           calls = CallsInOrder(operations, SelectSeq(targets, IsDir))

\* two operations ran, the first of them later in the list of C11 than the
\* second
C11_Witness ==
    \E i, j \in 1..Len(calls) :
        /\ i < j /\ Ran(i) /\ Ran(j)
        /\ ListedRank(calls[i].op) > ListedRank(calls[j].op)

(***************************************************************************)
(* No data loss.                                                           *)
(***************************************************************************)
\* the group lists one file under two path strings
ListedTwice(files) ==
    \E j, k \in 1..Len(files) :
        files[j] # files[k] /\ TreePath(files[j]) = TreePath(files[k])

\* C12 - No data loss: after remove_duplicates finishes, in any mode and
\* with any subset of deletions failing, every group found by the scan
\* still has at least one of its files present, and the path a ledger entry
\* reports as 'original' names a file that is still present and is not the
\* file of any path the run deleted, even when a group lists one file under
\* two path strings.
C12_NoDataLoss ==
    Returned =>
        /\ \A g \in 1..Len(processed) :
               \E k \in 1..Len(processed[g].files) :
                   IsFile(processed[g].files[k])
        /\ \A i \in 1..Len(cl.changes) :
               /\ IsFile(cl.changes[i].original)
               /\ \A d \in deleted :
                      TreePath(d) # TreePath(cl.changes[i].original)

\* a finished apply-mode run deleted a file that its group listed under two
\* path strings: the first string was removed, the second failed
C12_Witness ==
    /\ Returned /\ ~dry_run
    /\ \E g \in 1..Len(processed) :
           /\ ListedTwice(processed[g].files)
           /\ \E d \in deleted, f \in failed :
                  /\ d # f /\ TreePath(d) = TreePath(f)
                  /\ d \in Range(processed[g].files)
                  /\ f \in Range(processed[g].files)

(***************************************************************************)
(* The survivor of a group.                                                *)
(***************************************************************************)
\* shortest_filename has returned
Selected == chosen.shortest # None

\* the paths of the group of minimal stem length
Tied ==
    {p \in Range(group) :
        \A q \in Range(group) : Len(Stem(p)) <= Len(Stem(q))}

\* the place of a path in the group
Place(p) == CHOOSE i \in 1..Len(group) : group[i] = p

\* C13 - When several paths of a group tie at the minimal stem length, the
\* survivor is the tied path with the most recent modification time; when
\* exactly one path has the minimal stem length it is the survivor.
C13_TieByModificationTime ==
    Selected =>
        /\ chosen.shortest \in Tied
        /\ \A p \in Tied : mtime[p] <= mtime[chosen.shortest]

\* C13 as amended - When several paths of a group tie at the minimal stem
\* length, the survivor is the tied path whose lowercased path string is
\* least, and among tied paths with that same lowercased string the one that
\* is first in the group; when exactly one path has the minimal stem length
\* it is the survivor.  Modification times play no part: these conditions
\* single out one path of the ordered group.
C13_TieByLowercasePath ==
    Selected =>
        /\ chosen.shortest \in Tied
        /\ \A p \in Tied :
               /\ ~StrLess(Lower(p), Lower(chosen.shortest))
               /\ Lower(p) = Lower(chosen.shortest) =>
                      Place(chosen.shortest) <= Place(p)

\* a survivor was picked among several tied paths, two of which differ only
\* in case, and it is not the most recently modified of them
C13_Witness ==
    /\ Selected
    /\ \E p \in Tied : mtime[p] > mtime[chosen.shortest]
    /\ \E p \in Tied :
           p # chosen.shortest /\ Lower(p) = Lower(chosen.shortest)

(***************************************************************************)
(* The mapping of a recursive scan.                                        *)
(***************************************************************************)
\* the places <<list, position>> of the mapping
Places ==
    UNION {{<<g, k>> : k \in 1..Len(processed[g].files)} :
              g \in 1..Len(processed)}

\* the path at a place, and the file of the tree it names
PathAt(pl) == processed[pl[1]].files[pl[2]]
FileAt(pl) == TreePath(PathAt(pl))

\* the files of the scanned tree that can be read
Readable == {f \in FileIds : fs0[f].present /\ f \notin unreadable}

\* the files in the order the walk encounters them: those of the target
\* directory, then those of its subdirectory
Encounter ==
    SelectSeq(Listing(RootNames), LAMBDA n : fs0[n].present) \o
    [k \in 1..Len(SelectSeq(Listing(SubNames),
                             LAMBDA n : fs0[Join(SubName, n)].present)) |->
        Join(SubName, SelectSeq(Listing(SubNames),
                LAMBDA n : fs0[Join(SubName, n)].present)[k])]

\* a recursive scan of an existing target directory has been made, and the
\* mapping is the one of the current call
Scanned == Called /\ recursive /\ IsRoot(directory)

\* the mapping is the partition of the readable files by content
PartitionByContent ==
    /\ \A f \in Readable : Cardinality({pl \in Places : FileAt(pl) = f}) = 1
    /\ \A pl \in Places : FileAt(pl) \in Readable
    /\ \A p, q \in Places :
           (p[1] = q[1]) <=> (fs0[FileAt(p)].data = fs0[FileAt(q)].data)
    /\ \A p, q \in Places :
           (p[1] = q[1] /\ p[2] < q[2]) =>
               \E i, j \in 1..Len(Encounter) :
                   i < j /\ Encounter[i] = FileAt(p) /\ Encounter[j] = FileAt(q)

\* C14 - After a recursive scan of a tree, the mapping returned by
\* find_duplicates is the partition of the tree's readable files by content:
\* two files are in the same list iff their contents are identical, every
\* readable file appears in exactly one list exactly once, in the order it
\* was encountered, and unreadable files appear in none.
C14_ScanPartitions == Scanned => PartitionByContent

====
